---- MODULE Spec2Model ----
(***************************************************************************)
(* html2md.ts: a zero-dependency HTML to Markdown converter.               *)
(*                                                                         *)
(* A JavaScript string is modelled as a sequence of characters, a          *)
(* character as a one-symbol TLA+ string.  A DOM node is a record          *)
(*   [tag, text, attrs, kids]                                              *)
(* where tag is the upper-case tagName ("#text" for a text node,           *)
(* "#comment" for any other node type), text the nodeValue of a text node, *)
(* attrs a record of the attributes that are present and kids the          *)
(* childNodes.  The DOM is the output of DOMParser, which the converter    *)
(* consumes as given.                                                      *)
(***************************************************************************)
EXTENDS Integers, Sequences, FiniteSets, TLC

VARIABLES pc, doc, htmlBlank, baseUrl, i, out, ctx, heap, result

vars == <<pc, doc, htmlBlank, baseUrl, i, out, ctx, heap, result>>

(***************************************************************************)
(* Characters.  A TLA+ string literal cannot hold a backtick, so the       *)
(* backtick is the symbol BT; NBSP is U+00A0.                              *)
(***************************************************************************)
NL == "\n"
CR == "\r"
TAB == "\t"
SP == " "
NBSP == "nbsp"
BS == "\\"
BT == "bt"
STAR == "*"
USCORE == "_"
HASH == "#"
PIPE == "|"
GT == ">"
DASH == "-"

\* JavaScript's \s, restricted to the characters of the model
WhiteSpace == {SP, TAB, NL, CR, NBSP}

\* The helpers below avoid recursion over the characters of a string, and
\* each looks at the length of its argument first, so that the depth of
\* evaluation follows the depth of the document only.

\* the concatenation of a sequence of strings
RECURSIVE Flatten(_)
Flatten(parts) ==
  IF Len(parts) = 0 THEN <<>>
  ELSE IF Len(parts) = 1 THEN parts[1]
  ELSE LET m == Len(parts) \div 2
       IN  Flatten(SubSeq(parts, 1, m)) \o Flatten(SubSeq(parts, m + 1, Len(parts)))

\* the indices of s that satisfy Test, in increasing order
IndicesWhere(s, Test(_)) == SelectSeq([k \in 1..Len(s) |-> k], Test)

\* Array.prototype.join
Join(parts, sep) ==
  IF Len(parts) = 0 THEN <<>> ELSE
  Flatten([k \in 1..(2 * Len(parts) - 1) |->
             IF k % 2 = 1 THEN parts[(k + 1) \div 2] ELSE sep])

\* String.prototype.split on one separator character
Split(s, c) ==
  IF Len(s) = 0 THEN << <<>> >> ELSE
  LET cuts == IndicesWhere(s, LAMBDA k : s[k] = c)
      from(n) == IF n = 1 THEN 1 ELSE cuts[n - 1] + 1
      to(n)   == IF n = Len(cuts) + 1 THEN Len(s) ELSE cuts[n] - 1
  IN  [n \in 1..(Len(cuts) + 1) |-> SubSeq(s, from(n), to(n))]

\* the last index of the maximal run of characters of S that starts at k
RunEnd(s, k, S) ==
  CHOOSE e \in k..Len(s) :
    /\ \A j \in k..e : s[j] \in S
    /\ e = Len(s) \/ s[e + 1] \notin S

\* s.includes(pat)
Includes(s, pat) ==
  \E k \in 1..(Len(s) - Len(pat) + 1) : SubSeq(s, k, k + Len(pat) - 1) = pat

\* number of leading / trailing characters of S
LeadCount(s, S) ==
  IF Len(s) = 0 THEN 0 ELSE
  CHOOSE n \in 0..Len(s) :
    /\ \A k \in 1..n : s[k] \in S
    /\ n = Len(s) \/ s[n + 1] \notin S

TrailCount(s, S) ==
  IF Len(s) = 0 THEN 0 ELSE
  CHOOSE n \in 0..Len(s) :
    /\ \A k \in (Len(s) - n + 1)..Len(s) : s[k] \in S
    /\ n = Len(s) \/ s[Len(s) - n] \notin S

\* String.prototype.trim
Trim(s) ==
  IF Len(s) = 0 THEN <<>> ELSE
  IF LeadCount(s, WhiteSpace) = Len(s) THEN <<>>
  ELSE SubSeq(s, LeadCount(s, WhiteSpace) + 1, Len(s) - TrailCount(s, WhiteSpace))

\* repeat(ch, n)
repeat(ch, n) == Flatten([k \in 1..n |-> ch])

\* the maximal runs of characters of S in s, and the characters between them
Segments(s, S) ==
  IF Len(s) = 0 THEN <<>> ELSE
  LET starts == IndicesWhere(s, LAMBDA k :
                          s[k] \in S => (k = 1 \/ s[k - 1] \notin S))
  IN  [n \in 1..Len(starts) |->
         IF s[starts[n]] \in S
           THEN SubSeq(s, starts[n], RunEnd(s, starts[n], S))
           ELSE <<s[starts[n]]>>]

\* s.replace(/X+/g, f) for a character class X: every maximal run of
\* characters of S is replaced by f applied to the run
ReplaceRuns(s, S, f(_)) ==
  IF Len(s) = 0 THEN <<>> ELSE
  LET segs == Segments(s, S)
  IN  Flatten([k \in 1..Len(segs) |->
                 IF segs[k][1] \in S THEN f(segs[k]) ELSE segs[k]])

\* s.replace(/c/g, rep) for one character c
ReplaceChar(s, c, rep) ==
  IF Len(s) = 0 THEN <<>> ELSE
  Flatten([k \in 1..Len(s) |-> IF s[k] = c THEN rep ELSE <<s[k]>>])

(***************************************************************************)
(* The string helpers of html2md.ts.                                       *)
(***************************************************************************)
blockTags ==
  {"P", "DIV", "SECTION", "ARTICLE", "HEADER", "FOOTER", "MAIN", "ASIDE",
   "H1", "H2", "H3", "H4", "H5", "H6",
   "PRE", "BLOCKQUOTE", "UL", "OL", "LI", "TABLE", "THEAD", "TBODY", "TFOOT",
   "TR", "TD", "TH", "HR"}

isBlock(el) == el.tag \in blockTags

\* the character class [*_BT#|>\-] of escapeMd's second replace
MdSpecial == {STAR, USCORE, BT, HASH, PIPE, GT, DASH}

\* s.replace(/([S])/g, '\\$1'): a backslash before every character of S
EscapeClass(s, S) ==
  IF Len(s) = 0 THEN <<>> ELSE
  Flatten([k \in 1..Len(s) |-> IF s[k] \in S THEN <<BS, s[k]>> ELSE <<s[k]>>])

\* the two replacements in the other order: the backslashes added for the
\* special characters are doubled by the second replacement
escapeMdSpecialsFirst(text) == EscapeClass(EscapeClass(text, MdSpecial), {BS})

\* text.replace(/\\/g, '\\\\').replace(/([*_`#|>\-])/g, '\\$1')
escapeMd(text) == EscapeClass(EscapeClass(text, {BS}), MdSpecial)

OneSpace(run) == <<SP>>

\* \f and \v are not characters of the model
collapseWhitespace(s) ==
  ReplaceRuns(ReplaceChar(s, NBSP, <<SP>>), {SP, TAB}, OneSpace)

\* s.replace(/^\s+\n/, '\n'): the greedy \s+ backs off to the last newline
\* of the leading white space that has a character before it
TrimLeadBlank(s) ==
  IF Len(s) = 0 THEN <<>> ELSE
  LET w  == LeadCount(s, WhiteSpace)
      js == {j \in 2..w : s[j] = NL}
  IN  IF js = {} THEN s
      ELSE LET j == CHOOSE x \in js : \A y \in js : y <= x
           IN  <<NL>> \o SubSeq(s, j + 1, Len(s))

\* s.replace(/\n\s+$/, '\n'): the leftmost newline followed by white space
\* only, and by at least one character
TrimTrailBlank(s) ==
  IF Len(s) = 0 THEN <<>> ELSE
  LET t  == TrailCount(s, WhiteSpace)
      ks == {k \in (Len(s) - t + 1)..(Len(s) - 1) : s[k] = NL}
  IN  IF ks = {} THEN s
      ELSE LET k == CHOOSE x \in ks : \A y \in ks : x <= y
           IN  SubSeq(s, 1, k - 1) \o <<NL>>

\* s.replace(/^\n+|\n+$/g, '')
StripNewlines(s) ==
  IF Len(s) = 0 THEN <<>> ELSE
  IF LeadCount(s, {NL}) = Len(s) THEN <<>>
  ELSE SubSeq(s, LeadCount(s, {NL}) + 1, Len(s) - TrailCount(s, {NL}))

trimBlankLines(s) == StripNewlines(TrimTrailBlank(TrimLeadBlank(s)))

AtMostTwo(run) == IF Len(run) >= 3 THEN <<NL, NL>> ELSE run

\* s.replace(/\n{3,}/g, '\n\n')
CollapseNewlines(s) == ReplaceRuns(s, {NL}, AtMostTwo)

AtMostThree(run) == IF Len(run) >= 3 THEN <<NL, NL, NL>> ELSE run

\* the replacement one newline too long: s.replace(/\n{3,}/g, '\n\n\n')
normalizeLinesThree(s) == ReplaceRuns(s, {NL}, AtMostThree)

normalizeLines(s) == CollapseNewlines(s)

Fence3 == <<BT, BT, BT>>
Fence4 == <<BT, BT, BT, BT>>

\* text.replace(/\n$/, '')
DropLastNewline(text) ==
  IF Len(text) > 0 /\ text[Len(text)] = NL
    THEN SubSeq(text, 1, Len(text) - 1) ELSE text

\* the fence codeFence chooses for text
FenceOf(text) == IF Includes(text, Fence3) THEN Fence4 ELSE Fence3

\* lang is <<>> for null: null and '' are both falsy at line 99
codeFence(text, lang) ==
  LET fence == FenceOf(text)
      info  == lang
  IN  fence \o (IF info # <<>> THEN <<SP>> \o info ELSE <<>>) \o <<NL>>
        \o DropLastNewline(text) \o <<NL>> \o fence

\* text.replace(/\r\n?/g, '\n')
NormalizeEol(s) ==
  IF Len(s) = 0 THEN <<>> ELSE
  Flatten([k \in 1..Len(s) |->
             IF s[k] = CR THEN <<NL>>
             ELSE IF s[k] = NL /\ k > 1 /\ s[k - 1] = CR THEN <<>>
             ELSE <<s[k]>>])

\* the decimal digits of a natural number, as template literals print it
Digit(d) == <<"0", "1", "2", "3", "4", "5", "6", "7", "8", "9">>[d + 1]

RECURSIVE NumToStr(_)
NumToStr(n) ==
  IF n < 10 THEN <<Digit(n)>> ELSE NumToStr(n \div 10) \o <<Digit(n % 10)>>


(***************************************************************************)
(* DOM access.  An attribute that is absent is <<>>: getAttr's null and    *)
(* the empty string are told apart nowhere in the code (every use is       *)
(* "|| ''" or a truthiness test).                                          *)
(***************************************************************************)
NoAttrs ==
  [class |-> <<>>, style |-> <<>>, href |-> <<>>, src |-> <<>>,
   alt |-> <<>>, title |-> <<>>]

Text(s) == [tag |-> "#text", text |-> s, attrs |-> NoAttrs, kids |-> <<>>]

El(tag, kids) == [tag |-> tag, text |-> <<>>, attrs |-> NoAttrs, kids |-> kids]

ElA(tag, attrs, kids) ==
  [tag |-> tag, text |-> <<>>, attrs |-> attrs, kids |-> kids]

IsElement(node) == node.tag \notin {"#text", "#comment"}

getAttr(el, name) == el.attrs[name]

\* Node.textContent: the text of the text-node descendants, in document order
RECURSIVE textContentOf(_)
textContentOf(node) ==
  IF node.tag = "#text" THEN node.text
  ELSE IF node.tag = "#comment" THEN <<>>
  ELSE Flatten([k \in 1..Len(node.kids) |-> textContentOf(node.kids[k])])

\* el.children / Array.prototype.filter
ChildrenTagged(el, tags) ==
  SelectSeq(el.kids, LAMBDA ch : IsElement(ch) /\ ch.tag \in tags)

\* el.querySelector(tag): the first descendant with that tag in document
\* order, as a sequence of zero (null) or one node
RECURSIVE FirstDescendant(_, _)
FirstDescendant(kids, tag) ==
  IF Len(kids) = 0 THEN <<>>
  ELSE IF kids[1].tag = tag THEN <<kids[1]>>
  ELSE LET below == FirstDescendant(kids[1].kids, tag)
       IN  IF below # <<>> THEN below ELSE FirstDescendant(Tail(kids), tag)

querySelector(el, tag) == FirstDescendant(el.kids, tag)

UpperLetters ==
  <<"A", "B", "C", "D", "E", "F", "G", "H", "I", "J", "K", "L", "M",
    "N", "O", "P", "Q", "R", "S", "T", "U", "V", "W", "X", "Y", "Z">>

LowerLetters ==
  <<"a", "b", "c", "d", "e", "f", "g", "h", "i", "j", "k", "l", "m",
    "n", "o", "p", "q", "r", "s", "t", "u", "v", "w", "x", "y", "z">>

Range(f) == {f[x] : x \in DOMAIN f}

toLowerCase(s) ==
  IF Len(s) = 0 THEN <<>> ELSE
  Flatten([k \in 1..Len(s) |->
     IF s[k] \in Range(UpperLetters)
       THEN <<LowerLetters[CHOOSE n \in 1..26 : UpperLetters[n] = s[k]]>>
       ELSE <<s[k]>>])

\* the class [\w#+.-] of getCodeLang's capture group
LangChars ==
  Range(UpperLetters) \cup Range(LowerLetters)
    \cup {"0", "1", "2", "3", "4", "5", "6", "7", "8", "9", USCORE}
    \cup {HASH, "+", ".", DASH}

StartsAt(s, k, pat) ==
  k + Len(pat) - 1 <= Len(s) /\ SubSeq(s, k, k + Len(pat) - 1) = pat

\* cls.match(/(?:language|lang)-([\w#+.-]+)/): <<>> for no match (null)
getCodeLang(el) ==
  LET cls   == toLowerCase(getAttr(el, "class"))
      long  == <<"l", "a", "n", "g", "u", "a", "g", "e", DASH>>
      short == <<"l", "a", "n", "g", DASH>>
      \* where the capture group starts when the pattern matches at k, else 0
      grp(k) == IF StartsAt(cls, k, long) /\ k + 9 <= Len(cls)
                     /\ cls[k + 9] \in LangChars THEN k + 9
                ELSE IF StartsAt(cls, k, short) /\ k + 5 <= Len(cls)
                     /\ cls[k + 5] \in LangChars THEN k + 5
                ELSE 0
      ks    == {k \in 1..Len(cls) : grp(k) # 0}
  IN  IF ks = {} THEN <<>>
      ELSE LET k == CHOOSE x \in ks : \A y \in ks : x <= y
           IN  SubSeq(cls, grp(k), RunEnd(cls, grp(k), LangChars))

\* the value styleHas finds for prop: the style is split on ';', each part
\* on ':', key and value trimmed, the last pair of a key wins
StyleValue(el, prop) ==
  LET st    == toLowerCase(getAttr(el, "style"))
      pairs == Split(st, ";")
      key(n) == Trim(Split(pairs[n], ":")[1])
      val(n) == LET kv == Split(pairs[n], ":")
                IN  IF Len(kv) >= 2 THEN Trim(kv[2]) ELSE <<>>
      ns    == {n \in 1..Len(pairs) : key(n) = prop}
  IN  IF prop = <<>> \/ ns = {} THEN <<>>
      ELSE val(CHOOSE n \in ns : \A m \in ns : m <= n)

\* a regular expression without anchors that is an alternation of literal
\* strings is the set of these strings; re.test(v) is Test(re, v)
Test(re, v) == \E p \in re : Includes(v, p)

styleHas(el, prop, re) ==
  IF StyleValue(el, prop) # <<>> THEN Test(re, StyleValue(el, prop)) ELSE FALSE

\* /(bold|[6-9]00)/, /(italic|oblique)/, /line-through/
BoldRe ==
  {<<"b", "o", "l", "d">>}
    \cup {<<d, "0", "0">> : d \in {"6", "7", "8", "9"}}

ItalicRe ==
  {<<"i", "t", "a", "l", "i", "c">>, <<"o", "b", "l", "i", "q", "u", "e">>}

StrikeRe ==
  {<<"l", "i", "n", "e", DASH, "t", "h", "r", "o", "u", "g", "h">>}

isBoldLike(el) ==
  \/ el.tag = "B" \/ el.tag = "STRONG"
  \/ styleHas(el, <<"f", "o", "n", "t", DASH, "w", "e", "i", "g", "h", "t">>,
              BoldRe)

isItalicLike(el) ==
  \/ el.tag = "I" \/ el.tag = "EM"
  \/ styleHas(el, <<"f", "o", "n", "t", DASH, "s", "t", "y", "l", "e">>,
              ItalicRe)

isStrikeLike(el) ==
  \/ el.tag = "S" \/ el.tag = "DEL" \/ el.tag = "STRIKE"
  \/ styleHas(el, <<"t", "e", "x", "t", DASH, "d", "e", "c", "o", "r", "a",
                    "t", "i", "o", "n">>, StrikeRe)

\* new URL(href, base).href is the platform's URL resolution: its result is
\* kept as the uninterpreted term URL(href, base)
absolutizeUrl(href, base) ==
  IF base = <<>> THEN href
  ELSE <<"U", "R", "L", "(">> \o href \o <<",">> \o base \o <<")">>


(***************************************************************************)
(* The JavaScript heap.  A Ctx is an object and its orderedStack and       *)
(* orderedIndex are arrays: a variable holds a reference to them, and an   *)
(* assignment through one reference is seen through every other.  A        *)
(* reference is an index into heap.objs (Ctx objects) or heap.arrs         *)
(* (arrays).  A rendering function takes the heap and returns              *)
(* [md, heap]: the string it returns and the heap it leaves.               *)
(***************************************************************************)
EmptyHeap == [objs |-> <<>>, arrs |-> <<>>]

\* { listDepth: 0, orderedStack: [], orderedIndex: [], baseUrl }: the heap
\* after the literal; the new object is the last of objs
NewCtx(h, base) ==
  LET a == Len(h.arrs)
  IN  [objs |-> Append(h.objs, [listDepth |-> 0, orderedStack |-> a + 1,
                                orderedIndex |-> a + 2, baseUrl |-> base]),
       arrs |-> h.arrs \o << <<>>, <<>> >>]

\* a variant of DeriveCtx that pushes onto the caller's arrays and counts
\* the depth in the caller's object instead of copying them
DeriveCtxInPlace(h, c, ordered) ==
  LET o == h.objs[c]
  IN  [ref  |-> c,
       heap |-> [objs |-> [h.objs EXCEPT ![c].listDepth = @ + 1],
                 arrs |-> [h.arrs EXCEPT
                             ![o.orderedStack] = Append(@, ordered),
                             ![o.orderedIndex] = Append(@, 0)]]]

\* a variant of DeriveCtx that allocates the object but pushes onto the
\* caller's arrays (push in place of concat)
DeriveCtxShared(h, c, ordered) ==
  LET o == h.objs[c]
  IN  [ref  |-> Len(h.objs) + 1,
       heap |-> [objs |-> Append(h.objs, [o EXCEPT !.listDepth = @ + 1]),
                 arrs |-> [h.arrs EXCEPT
                             ![o.orderedStack] = Append(@, ordered),
                             ![o.orderedIndex] = Append(@, 0)]]]

\* const next = { ...ctx, listDepth: ctx.listDepth + 1,
\*   orderedStack: ctx.orderedStack.concat([ordered]),
\*   orderedIndex: ctx.orderedIndex.concat([0]) }
\* concat allocates a new array and the literal a new object
DeriveCtx(h, c, ordered) ==
  LET o == h.objs[c]
      a == Len(h.arrs)
  IN  [ref  |-> Len(h.objs) + 1,
       heap |-> [objs |-> Append(h.objs,
                            [listDepth |-> o.listDepth + 1,
                             orderedStack |-> a + 1,
                             orderedIndex |-> a + 2,
                             baseUrl |-> o.baseUrl]),
                 arrs |-> h.arrs \o << Append(h.arrs[o.orderedStack], ordered),
                                        Append(h.arrs[o.orderedIndex], 0) >>]]

\* const idx = next.orderedIndex[next.orderedIndex.length - 1] + 1
NextIndex(h, c) ==
  LET arr == h.arrs[h.objs[c].orderedIndex] IN arr[Len(arr)] + 1

\* next.orderedIndex[next.orderedIndex.length - 1] = idx
StoreIndex(h, c, idx) ==
  LET r == h.objs[c].orderedIndex
  IN  [h EXCEPT !.arrs[r][Len(h.arrs[r])] = idx]

\* ordered ? (idx + '. ') : '- '
Bullet(ordered, idx) ==
  IF ordered THEN NumToStr(idx) \o <<".", SP>> ELSE <<DASH, SP>>

\* '| ' + cols.join(' | ') + ' |'
rowLine(cols) == <<PIPE, SP>> \o Join(cols, <<SP, PIPE, SP>>) \o <<SP, PIPE>>

IgnoredTags == {"SCRIPT", "STYLE", "NOSCRIPT", "META", "LINK"}

HeadingTags == {"H1", "H2", "H3", "H4", "H5", "H6"}

\* Number(tag.substring(1)) || 1
HeadingLevel(tag) ==
  CASE tag = "H1" -> 1 [] tag = "H2" -> 2 [] tag = "H3" -> 3
    [] tag = "H4" -> 4 [] tag = "H5" -> 5 [] tag = "H6" -> 6

Max(a, b) == IF a >= b THEN a ELSE b

Min(a, b) == IF a <= b THEN a ELSE b

\* ' "' + escapeMd(title) + '"' when the title is truthy
TitlePart(title) ==
  IF title # <<>> THEN <<SP, "\"">> \o escapeMd(title) \o <<"\"">> ELSE <<>>

\* text node: runs of white space become one newline when they hold one,
\* one space otherwise
NewlineOrSpace(m) == IF \E k \in 1..Len(m) : m[k] = NL THEN <<NL>> ELSE <<SP>>

RenderText(node) ==
  escapeMd(ReplaceRuns(node.text, WhiteSpace, NewlineOrSpace))

\* the standalone code element: the raw text between one or two backticks
RenderCode(el) ==
  LET raw   == textContentOf(el)
      ticks == IF Includes(raw, <<BT>>) THEN <<BT, BT>> ELSE <<BT>>
  IN  ticks \o raw \o ticks

\* the text a pre element hands to codeFence
PreText(el) ==
  LET code == querySelector(el, "CODE")
  IN  NormalizeEol(IF code # <<>> THEN textContentOf(code[1])
                   ELSE textContentOf(el))

RenderPre(el) ==
  LET code == querySelector(el, "CODE")
      lang == IF code # <<>> THEN getCodeLang(code[1]) ELSE <<>>
  IN  <<NL, NL>> \o codeFence(PreText(el), lang) \o <<NL, NL>>

PrefixQuote(inner) ==
  LET ls == Split(inner, NL)
  IN  Join([k \in 1..Len(ls) |-> <<GT, SP>> \o ls[k]], <<NL>>)

\* the rows renderTable collects: those of thead, tbody and tfoot in that
\* order when any exists, the table's own otherwise
CollectRows(table) ==
  LET thead == querySelector(table, "THEAD")
      tbody == querySelector(table, "TBODY")
      tfoot == querySelector(table, "TFOOT")
      rowsOf(scope) == IF scope = <<>> THEN <<>>
                       ELSE ChildrenTagged(scope[1], {"TR"})
  IN  IF thead = <<>> /\ tbody = <<>> /\ tfoot = <<>>
        THEN ChildrenTagged(table, {"TR"})
        ELSE rowsOf(thead) \o rowsOf(tbody) \o rowsOf(tfoot)

RECURSIVE renderNode(_, _, _)
RECURSIVE RenderNodes(_, _, _)
RECURSIVE RenderItems(_, _, _, _, _)
RECURSIVE ListItemParts(_, _, _)
RECURSIVE RenderCells(_, _, _)
RECURSIVE RenderRows(_, _, _)

\* y, with x evaluated first: the evaluation of an argument is otherwise put
\* off to its first use, deep inside the expression using it
First(x, y) == IF x = x THEN y ELSE y

\* out += md, in front of the rendering of the following siblings
Prepend(md, rest) ==
  First(rest, [md |-> md \o rest.md, heap |-> rest.heap])

NodesAfter(r, rest, c) ==
  First(r, Prepend(r.md, RenderNodes(rest, c, r.heap)))

\* for (const child of nodes) out += renderNode(child, ctx)
RenderNodes(nodes, c, h) ==
  IF Len(nodes) = 0 THEN [md |-> <<>>, heap |-> h]
  ELSE NodesAfter(renderNode(nodes[1], c, h), Tail(nodes), c)

renderInlineChildren(el, c, h) == RenderNodes(el.kids, c, h)

\* the parts renderListItem collects: the non-empty renderings of the children
PushPart(md, more) ==
  First(more, [parts |-> (IF md = <<>> THEN <<>> ELSE <<md>>) \o more.parts,
               heap  |-> more.heap])

PartsAfter(r, rest, c) ==
  First(r, PushPart(r.md, ListItemParts(rest, c, r.heap)))

ListItemParts(nodes, c, h) ==
  IF Len(nodes) = 0 THEN [parts |-> <<>>, heap |-> h]
  ELSE PartsAfter(renderNode(nodes[1], c, h), Tail(nodes), c)

JoinParts(r) ==
  First(r, [md |-> CollapseNewlines(Join(r.parts, <<NL>>)), heap |-> r.heap])

renderListItem(li, c, h) == JoinParts(ListItemParts(li.kids, c, h))

\* the string renderList pushes to out for one item
ItemLines(contentMd, indent, bullet) ==
  LET lines == Split(contentMd, NL)
      first == indent \o bullet \o lines[1]
      rest  == [k \in 1..(Len(lines) - 1) |->
                  indent \o <<SP, SP>> \o lines[k + 1]]
  IN  Join(<<first>> \o rest, <<NL>>)

PushItem(item, more) ==
  First(item, First(more, [out |-> <<item>> \o more.out, heap |-> more.heap]))

\* the rest of one turn of renderList's loop, r being what renderListItem
\* returned: the indent is read from ctx after the item is rendered
ItemDone(items, c, next, idx, ordered, r) ==
  First(r,
    PushItem(ItemLines(trimBlankLines(r.md),
                       repeat(<<SP, SP>>, r.heap.objs[c].listDepth),
                       Bullet(ordered, idx)),
             RenderItems(Tail(items), c, next, r.heap, ordered)))

ItemStep(items, c, next, h, idx, ordered) ==
  ItemDone(items, c, next, idx, ordered,
           renderListItem(items[1], next, StoreIndex(h, next, idx)))

\* the loop of renderList over the items: the strings pushed to out
RenderItems(items, c, next, h, ordered) ==
  IF Len(items) = 0 THEN [out |-> <<>>, heap |-> h]
  ELSE ItemStep(items, c, next, h, NextIndex(h, next), ordered)

JoinItems(r) ==
  First(r, [md |-> Join(r.out, <<NL>>), heap |-> r.heap])

ListFrom(items, c, d, ordered) ==
  First(d, JoinItems(RenderItems(items, c, d.ref, d.heap, ordered)))

renderList(el, c, h, ordered) ==
  ListFrom(ChildrenTagged(el, {"LI"}), c, DeriveCtx(h, c, ordered), ordered)

\* the flattened text of a cell
CellText(md) ==
  Trim(ReplaceRuns(collapseWhitespace(trimBlankLines(md)), {NL}, OneSpace))

PushCell(text, more) ==
  First(text, First(more,
    [texts |-> <<text>> \o more.texts, heap |-> more.heap]))

CellsAfter(r, rest, c) ==
  First(r, PushCell(CellText(r.md), RenderCells(rest, c, r.heap)))

\* cells.map(td => ...): the flattened text of every cell of a row
RenderCells(cells, c, h) ==
  IF Len(cells) = 0 THEN [texts |-> <<>>, heap |-> h]
  ELSE CellsAfter(renderInlineChildren(cells[1], c, h), Tail(cells), c)

\* grid.push(texts); header is the index of the row whose texts headerCells
\* holds (0 while headerCells is null): the first row with a th
PushRow(texts, hasTh, more) ==
  First(more,
    [grid   |-> <<texts>> \o more.grid,
     header |-> IF hasTh THEN 1
                ELSE IF more.header = 0 THEN 0 ELSE more.header + 1,
     heap   |-> more.heap])

RowsAfter(r, hasTh, rest, c) ==
  First(r, PushRow(r.texts, hasTh, RenderRows(rest, c, r.heap)))

HasTh(cells) == \E k \in 1..Len(cells) : cells[k].tag = "TH"

RowCells(tr) == ChildrenTagged(tr, {"TD", "TH"})

\* the loop of renderTable over the rows
RenderRows(rows, c, h) ==
  IF Len(rows) = 0 THEN [grid |-> <<>>, header |-> 0, heap |-> h]
  ELSE RowsAfter(RenderCells(RowCells(rows[1]), c, h),
                 HasTh(RowCells(rows[1])), Tail(rows), c)

\* the rows emitted under the separator line
TableBody(grid, header) == IF header # 0 THEN grid ELSE Tail(grid)

\* the lines of the table: header, separator, body
TableLines(grid, header) ==
  LET head == IF header # 0 THEN grid[header]
              ELSE IF Len(grid) > 0 THEN grid[1] ELSE <<>>
      body == IF Len(grid) = 0 THEN <<>> ELSE TableBody(grid, header)
      sep  == [k \in 1..Len(head) |-> <<DASH, DASH, DASH>>]
  IN  IF Len(head) = 0 THEN <<>>
      ELSE <<rowLine(head), rowLine(sep)>>
             \o [k \in 1..Len(body) |-> rowLine(body[k])]

JoinTable(r) ==
  First(r, [md   |-> Join(TableLines(r.grid, r.header), <<NL>>),
            heap |-> r.heap])

renderTable(table, c, h) == JoinTable(RenderRows(CollectRows(table), c, h))

\* the img, a, heading, blockquote, emphasis and plain-block branches
RenderImg(node, base) ==
  <<"!", "[">> \o escapeMd(getAttr(node, "alt")) \o <<"]", "(">>
    \o absolutizeUrl(getAttr(node, "src"), base)
    \o TitlePart(getAttr(node, "title")) \o <<")">>

RenderLink(node, inner, base) ==
  LET t    == trimBlankLines(inner)
      text == IF t # <<>> THEN t ELSE getAttr(node, "href")
  IN  <<"[">> \o text \o <<"]", "(">>
        \o absolutizeUrl(getAttr(node, "href"), base)
        \o TitlePart(getAttr(node, "title")) \o <<")">>

RenderHeading(node, inner) ==
  <<NL, NL>> \o repeat(<<HASH>>, Max(1, Min(6, HeadingLevel(node.tag))))
    \o <<SP>> \o trimBlankLines(inner) \o <<NL, NL>>

RenderQuote(inner) ==
  <<NL, NL>> \o PrefixQuote(trimBlankLines(inner)) \o <<NL, NL>>

\* out = mark + out + mark when the test holds
Mark(test, mark, inner) == IF test THEN mark \o inner \o mark ELSE inner

RenderEmphasis(node, inner) ==
  Mark(isStrikeLike(node), <<"~", "~">>,
       Mark(isItalicLike(node), <<STAR>>,
            Mark(isBoldLike(node), <<STAR, STAR>>, inner)))

RenderBlock(inner) ==
  LET t == trimBlankLines(inner)
  IN  IF t = <<>> THEN <<>> ELSE <<NL, NL>> \o t \o <<NL, NL>>

\* the branch of renderNode that a node takes, in the order of the code
Branch(node) ==
  CASE node.tag = "#text" -> "text"
    [] ~IsElement(node) -> "none"
    [] node.tag \in IgnoredTags -> "none"
    [] node.tag = "BR" -> "br"
    [] node.tag = "HR" -> "hr"
    [] node.tag = "IMG" -> "img"
    [] node.tag = "A" -> "a"
    [] node.tag = "CODE" -> "code"
    [] node.tag = "PRE" -> "pre"
    [] node.tag \in HeadingTags -> "heading"
    [] node.tag = "BLOCKQUOTE" -> "blockquote"
    [] node.tag \in {"UL", "OL"} -> "list"
    [] node.tag = "TABLE" -> "table"
    [] isBoldLike(node) \/ isItalicLike(node) \/ isStrikeLike(node) -> "emphasis"
    [] isBlock(node) -> "block"
    [] OTHER -> "inline"

\* UL and OL: '\n' + renderList(...) + '\n\n'
WrapList(r) ==
  First(r, [md |-> <<NL>> \o r.md \o <<NL, NL>>, heap |-> r.heap])

\* TABLE: '\n\n' + renderTable(...) + '\n\n'
WrapTable(r) ==
  First(r, [md |-> <<NL, NL>> \o r.md \o <<NL, NL>>, heap |-> r.heap])

\* the branches that wrap renderInlineChildren(el, ctx), which returned r
WrapChildren(b, node, c, r) ==
  First(r,
    [md |-> CASE b = "a" -> RenderLink(node, r.md, r.heap.objs[c].baseUrl)
              [] b = "heading" -> RenderHeading(node, r.md)
              [] b = "blockquote" -> RenderQuote(r.md)
              [] b = "emphasis" -> RenderEmphasis(node, r.md)
              [] b = "block" -> RenderBlock(r.md)
              [] b = "inline" -> r.md,
     heap |-> r.heap])

RenderBranch(b, node, c, h) ==
  CASE b = "text" -> [md |-> RenderText(node), heap |-> h]
    [] b = "none" -> [md |-> <<>>, heap |-> h]
    [] b = "br" -> [md |-> <<SP, SP, NL>>, heap |-> h]
    [] b = "hr" -> [md |-> <<NL, NL, DASH, DASH, DASH, NL, NL>>, heap |-> h]
    [] b = "img" -> [md |-> RenderImg(node, h.objs[c].baseUrl), heap |-> h]
    [] b = "code" -> [md |-> RenderCode(node), heap |-> h]
    [] b = "pre" -> [md |-> RenderPre(node), heap |-> h]
    [] b = "list" -> WrapList(renderList(node, c, h, node.tag = "OL"))
    [] b = "table" -> WrapTable(renderTable(node, c, h))
    [] OTHER -> WrapChildren(b, node, c, renderInlineChildren(node, c, h))

renderNode(node, c, h) == RenderBranch(Branch(node), node, c, h)

(***************************************************************************)
(* Bounds of the input documents.                                          *)
(***************************************************************************)
\* characters in a text node of the text documents
MaxText == 2
\* characters in the text of a pre element
MaxPre == 4
\* list items (li) in one list tree, nested ones included
MaxItems == 4
\* rows of a table, and cells of a row
MaxRows == 2
MaxCols == 2
\* top-level nodes of a mixed document
MaxBlocks == 2
\* enclosing lists of the context renderList is called with
MaxCtxDepth == 2

\* the strings over alphabet A of at most n characters
RECURSIVE Strings(_, _)
Strings(A, n) ==
  IF n = 0 THEN {<<>>}
  ELSE LET S == Strings(A, n - 1)
       IN  S \cup {Append(t, c) : t \in {u \in S : Len(u) = n - 1}, c \in A}

\* the sequences over S of at most n elements
Seqs(S, n) == UNION {[1..m -> S] : m \in 0..n}

TextChars == {"a", SP, NL, BS} \cup MdSpecial

PreChars == {"a", BT, NL, CR, BS}

TextStrings == Strings(TextChars, MaxText)

PreStrings == Strings(PreChars, MaxPre)

LangJs == [NoAttrs EXCEPT !.class =
             <<"l", "a", "n", "g", "u", "a", "g", "e", DASH, "j", "s">>]

\* a text node alone, in a paragraph, in a code element
TextDocs ==
  {<<Text(t)>> : t \in TextStrings}
    \cup {<<El("P", <<Text(t)>>)>> : t \in TextStrings}
    \cup {<<El("CODE", <<Text(t)>>)>> : t \in TextStrings}

\* a pre element with its own text, and with a nested code element
PreDocs ==
  {<<El("PRE", <<Text(t)>>)>> : t \in PreStrings}
    \cup {<<El("PRE", <<ElA("CODE", LangJs, <<Text(t)>>)>>)>>
             : t \in PreStrings}

\* The list trees with exactly n li elements.  An item holds the text x,
\* alone or followed by a nested list.
RECURSIVE ItemSeqs(_)
ListsOf(n) ==
  {El(tag, items) : tag \in {"UL", "OL"}, items \in ItemSeqs(n)}

ItemsOf(n) ==
  IF n = 1 THEN {El("LI", <<Text(<<"x">>)>>)}
  ELSE {El("LI", <<Text(<<"x">>), l>>) : l \in ListsOf(n - 1)}

ItemSeqs(n) ==
  IF n = 0 THEN {<<>>}
  ELSE UNION {{<<it>> \o rest : it \in ItemsOf(k), rest \in ItemSeqs(n - k)}
                : k \in 1..n}

ListTrees == UNION {ListsOf(n) : n \in 1..MaxItems}

\* <ul><li>a</li><li>b<ul><li>c</li></ul></li></ul>
NestedExample ==
  El("UL", <<El("LI", <<Text(<<"a">>)>>),
             El("LI", <<Text(<<"b">>),
                        El("UL", <<El("LI", <<Text(<<"c">>)>>)>>)>>)>>)

\* one list, or a list followed by a sibling ordered list
ListDocs ==
  {<<l>> : l \in ListTrees \cup {NestedExample}}
    \cup {<<l, m>> : l \in ListTrees, m \in ListsOf(1) \cup ListsOf(2)}

\* The tables.  The text of a cell is its column's letter in a th and its
\* column's digit in a td.
CellLabel(tag, col) ==
  IF tag = "TH" THEN <<UpperLetters[col]>> ELSE <<Digit(col)>>

RowOf(tags) ==
  El("TR", [k \in 1..Len(tags) |-> El(tags[k], <<Text(CellLabel(tags[k], k))>>)])

TableRows == {RowOf(tags) : tags \in Seqs({"TH", "TD"}, MaxCols)}

RowSeqs == Seqs(TableRows, MaxRows) \ {<<>>}

\* the rows as children of the table, in a tbody, and split between a thead
\* and a tbody
TableDocs ==
  {<<El("TABLE", rows)>> : rows \in RowSeqs}
    \cup {<<El("TABLE", <<El("TBODY", rows)>>)>> : rows \in RowSeqs}
    \cup {<<El("TABLE", <<El("THEAD", <<Head(rows)>>),
                           El("TBODY", Tail(rows))>>)>> : rows \in RowSeqs}

\* documents of at most MaxBlocks top-level nodes of every kind renderNode
\* tells apart
Blocks ==
  {Text(<<"a">>), Text(<<SP, NL>>), Text(<<NBSP>>),
   [tag |-> "#comment", text |-> <<>>, attrs |-> NoAttrs, kids |-> <<>>],
   El("SCRIPT", <<Text(<<"a">>)>>), El("BR", <<>>), El("HR", <<>>),
   ElA("IMG", [NoAttrs EXCEPT !.alt = <<"a", STAR>>, !.src = <<"/", "i">>,
                              !.title = <<"t">>], <<>>),
   ElA("A", [NoAttrs EXCEPT !.href = <<"/", "x">>], <<>>),
   ElA("A", [NoAttrs EXCEPT !.href = <<"/", "x">>], <<Text(<<"a">>)>>),
   El("CODE", <<Text(<<"a", BT>>)>>),
   El("PRE", <<Text(<<"a", NL, NL, NL, "a">>)>>),
   El("H2", <<Text(<<"a">>)>>),
   El("BLOCKQUOTE", <<Text(<<"a", NL, "a">>)>>),
   El("UL", <<El("LI", <<El("P", <<Text(<<"a">>)>>),
                         El("P", <<Text(<<"a">>)>>)>>)>>),
   El("TABLE", <<El("TR", <<El("TD", <<Text(<<"a", PIPE>>)>>)>>)>>),
   El("B", <<Text(<<"a">>)>>),
   ElA("SPAN", [NoAttrs EXCEPT !.style =
                  <<"f", "o", "n", "t", DASH, "s", "t", "y", "l", "e", ":",
                    "i", "t", "a", "l", "i", "c">>], <<Text(<<"a">>)>>),
   El("DIV", <<>>),
   El("DIV", <<El("P", <<Text(<<"a">>)>>), El("P", <<Text(<<"a">>)>>)>>),
   El("SPAN", <<Text(<<"a">>), El("BR", <<>>)>>)}

MixedDocs == Seqs(Blocks, MaxBlocks)

Docs == TextDocs \cup PreDocs \cup ListDocs \cup TableDocs \cup MixedDocs

(***************************************************************************)
(* htmlToMarkdown.  doc is root.childNodes, the parse of the html          *)
(* argument; htmlBlank says whether the html argument itself is empty or   *)
(* white space only (a white-space text node can also come from markup     *)
(* that is not blank, such as a character reference).                      *)
(***************************************************************************)
WhiteSpaceOnly(nodes) ==
  /\ Len(nodes) <= 1
  /\ \A k \in 1..Len(nodes) :
       /\ nodes[k].tag = "#text"
       /\ \A n \in 1..Len(nodes[k].text) : nodes[k].text[n] \in {SP, NL, TAB, CR}

\* out = normalizeLines(trimBlankLines(out)); return out.trim() + '\n'
Finalize(o) == Trim(normalizeLines(trimBlankLines(o))) \o <<NL>>


Init ==
  /\ pc = "start"
  /\ doc \in Docs
  /\ htmlBlank \in {b \in BOOLEAN : b => WhiteSpaceOnly(doc)}
  /\ baseUrl = <<>>
  /\ i = 0
  /\ out = <<>>
  /\ ctx = 0
  /\ heap = EmptyHeap
  /\ result = <<>>

\* if (!html || !html.trim()) return ''
ReturnEmpty ==
  /\ pc = "start"
  /\ htmlBlank
  /\ result' = <<>>
  /\ pc' = "done"
  /\ UNCHANGED <<doc, htmlBlank, baseUrl, i, out, ctx, heap>>

\* const ctx = { listDepth: 0, ... }; let out = ''
Begin ==
  /\ pc = "start"
  /\ ~htmlBlank
  /\ heap' = NewCtx(heap, baseUrl)
  /\ ctx' = Len(heap'.objs)
  /\ out' = <<>>
  /\ i' = 1
  /\ pc' = "render"
  /\ UNCHANGED <<doc, htmlBlank, baseUrl, result>>

\* one turn of the loop: out += renderNode(child, ctx)
RenderChild ==
  /\ pc = "render"
  /\ i <= Len(doc)
  /\ LET r == renderNode(doc[i], ctx, heap)
     IN  /\ out' = out \o r.md
         /\ heap' = r.heap
  /\ i' = i + 1
  /\ UNCHANGED <<pc, doc, htmlBlank, baseUrl, ctx, result>>

Finish ==
  /\ pc = "render"
  /\ i > Len(doc)
  /\ result' = Finalize(out)
  /\ pc' = "done"
  /\ UNCHANGED <<doc, htmlBlank, baseUrl, i, out, ctx, heap>>

Next == ReturnEmpty \/ Begin \/ RenderChild \/ Finish

Spec == Init /\ [][Next]_vars

\* htmlToMarkdown as a function of the parsed document
htmlToMarkdown(nodes, blank, base) ==
  IF blank THEN <<>>
  ELSE LET h0 == NewCtx(EmptyHeap, base)
       IN  Finalize(RenderNodes(nodes, Len(h0.objs), h0).md)

(***************************************************************************)
(* renderList called on its own, with a context of any depth: the caller   *)
(* may itself be inside lists.  The context object and its two arrays are  *)
(* the first object and the first two arrays of the heap.                  *)
(***************************************************************************)
BaseUrls == {<<>>, <<"h", ":", "/", "/", "b", "/">>}

\* the context of a caller inside d lists, ordered or not, whose counters
\* stand at 1, 2, ..., d
CtxHeaps ==
  {[objs |-> <<[listDepth |-> d, orderedStack |-> 1, orderedIndex |-> 2,
                baseUrl |-> b]>>,
    arrs |-> <<stack, [k \in 1..d |-> k]>>] :
     <<d, stack, b>> \in
        UNION {{d} \X [1..d -> BOOLEAN] \X BaseUrls : d \in 0..MaxCtxDepth}}

CalledLists ==
  UNION {ListsOf(n) : n \in 1..(MaxItems - 1)} \cup {NestedExample}

InitRenderList ==
  /\ pc = "call"
  /\ doc \in {<<l>> : l \in CalledLists}
  /\ htmlBlank = FALSE
  /\ heap \in CtxHeaps
  /\ ctx = 1
  /\ baseUrl = heap.objs[ctx].baseUrl
  /\ i = 1
  /\ out = <<>>
  /\ result = <<>>

\* out = renderList(el, ctx, ordered)
CallRenderList ==
  /\ pc = "call"
  /\ LET r == renderList(doc[1], ctx, heap, doc[1].tag = "OL")
     IN  /\ out' = r.md
         /\ heap' = r.heap
  /\ pc' = "returned"
  /\ UNCHANGED <<doc, htmlBlank, baseUrl, i, ctx, result>>

SpecRenderList == InitRenderList /\ [][CallRenderList]_vars

(***************************************************************************)
(* Vocabulary of the properties.                                           *)
(***************************************************************************)
Done == pc = "done" /\ ~htmlBlank

\* the document is one element with the given tag
OneElement(tag) == Len(doc) = 1 /\ doc[1].tag = tag

\* the lines of a string that ends with a newline
LinesOf(s) == Split(SubSeq(s, 1, Len(s) - 1), NL)

IsBlankLine(line) == \A k \in 1..Len(line) : line[k] \in WhiteSpace

\* the first index from k on at which s holds c
IndexFrom(s, k, c) ==
  CHOOSE n \in k..Len(s) : s[n] = c /\ \A j \in k..(n - 1) : s[j] # c

Count(s, c) == Cardinality({k \in 1..Len(s) : s[k] = c})

NonSpace(s) == SelectSeq(s, LAMBDA c : c \notin WhiteSpace)

\* C1: the string htmlToMarkdown returns holds no run of three or more
\* newline characters.
C1_NoTripleNewline == pc = "done" => ~Includes(result, <<NL, NL, NL>>)

\* a returned document whose rendering held such a run before normalizeLines
C1_Witness ==
  /\ Done
  /\ Includes(trimBlankLines(out), <<NL, NL, NL>>)
  /\ Len(result) > 1

\* C2: a returned string that is not empty ends with exactly one newline and
\* its first line holds a character that is not white space.
C2_OneTrailingNewlineNoLeadingBlank ==
  (pc = "done" /\ result # <<>>) =>
    /\ result[Len(result)] = NL
    /\ Len(result) >= 2 => result[Len(result) - 1] # NL
    /\ ~IsBlankLine(Split(result, NL)[1])

\* a list whose items hold one text node, followed at most by nested lists of
\* the same kind
RECURSIVE PlainList(_)
PlainList(node) ==
  /\ node.tag \in {"UL", "OL"}
  /\ \A k \in 1..Len(node.kids) :
       LET li == node.kids[k]
       IN  /\ li.tag = "LI"
           /\ Len(li.kids) >= 1
           /\ li.kids[1].tag = "#text"
           /\ NonSpace(li.kids[1].text) = li.kids[1].text
           /\ li.kids[1].text # <<>>
           /\ \A n \in 2..Len(li.kids) : PlainList(li.kids[n])

PlainListDoc == Len(doc) >= 1 /\ \A k \in 1..Len(doc) : PlainList(doc[k])

\* C3: a nested list is rendered directly under its parent item, with no blank
\* or white-space-only line in between, and the tree ul[li[a], li[b, ul[li[c]]]]
\* renders to "- a\n- b\n  - c\n".
C3_NestedListDirectlyUnderItem ==
  /\ (Done /\ doc = <<NestedExample>>) =>
        result = <<DASH, SP, "a", NL, DASH, SP, "b", NL,
                   SP, SP, DASH, SP, "c", NL>>
  /\ (Done /\ Len(doc) = 1 /\ PlainListDoc) =>
        \A k \in 1..Len(LinesOf(result)) : ~IsBlankLine(LinesOf(result)[k])

\* the first row holds th cells only and the other rows td cells only
HeaderFirst(rows) ==
  /\ Len(rows) >= 1
  /\ Len(RowCells(rows[1])) >= 1
  /\ \A k \in 1..Len(RowCells(rows[1])) : RowCells(rows[1])[k].tag = "TH"
  /\ \A r \in 2..Len(rows) :
       \A k \in 1..Len(RowCells(rows[r])) : RowCells(rows[r])[k].tag = "TD"

RowTexts(tr) ==
  [k \in 1..Len(RowCells(tr)) |-> textContentOf(RowCells(tr)[k])]

\* header line, separator line, one line for each of the other rows
HeaderOnceLines(rows) ==
  <<rowLine(RowTexts(rows[1])),
    rowLine([k \in 1..Len(RowCells(rows[1])) |-> <<DASH, DASH, DASH>>])>>
    \o [r \in 1..(Len(rows) - 1) |-> rowLine(RowTexts(rows[r + 1]))]

\* C4: a table whose first row holds header cells and whose other rows hold
\* data cells renders to the header line, one separator line and one line for
\* each of the other rows: the header row is emitted once.
C4_HeaderRowOnce ==
  (Done /\ OneElement("TABLE") /\ HeaderFirst(CollectRows(doc[1]))) =>
     LinesOf(result) = HeaderOnceLines(CollectRows(doc[1]))

\* the markers the lists of a tree are to carry, in document order: k for the
\* k-th li child of an ol, a dash for an li child of a ul
RECURSIVE ExpectedMarkers(_)
ExpectedMarkers(list) ==
  Flatten([k \in 1..Len(list.kids) |->
    << IF list.tag = "OL" THEN NumToStr(k) ELSE <<DASH>> >>
      \o Flatten([n \in 1..(Len(list.kids[k].kids) - 1) |->
                    ExpectedMarkers(list.kids[k].kids[n + 1])])])

\* the marker an output line starts with, after its indentation
MarkerOf(line) ==
  IF line[LeadCount(line, {SP}) + 1] = DASH THEN <<DASH>>
  ELSE SubSeq(line, LeadCount(line, {SP}) + 1, IndexFrom(line, 1, ".") - 1)

MarkedLines(s) == SelectSeq(LinesOf(s), LAMBDA l : ~IsBlankLine(l))

Markers(s) == [k \in 1..Len(MarkedLines(s)) |-> MarkerOf(MarkedLines(s)[k])]

\* C5: the k-th li child of an ordered list is rendered with the number k,
\* whatever lists are nested in earlier items or stand before the list.
C5_OrderedItemsNumberedFromOne ==
  (Done /\ PlainListDoc) =>
     Markers(result) = Flatten([k \in 1..Len(doc) |-> ExpectedMarkers(doc[k])])

\* an ordered list whose first item holds a nested ordered list of two items
\* and is followed by another item, then a sibling ordered list
C5_Witness ==
  /\ Done
  /\ PlainListDoc
  /\ Len(doc) = 2
  /\ doc[1].tag = "OL" /\ doc[2].tag = "OL"
  /\ Len(doc[1].kids) = 2
  /\ Len(doc[1].kids[1].kids) = 2
  /\ doc[1].kids[1].kids[2].tag = "OL"
  /\ Len(doc[1].kids[1].kids[2].kids) = 2
  /\ Markers(result) = << <<"1">>, <<"1">>, <<"2">>, <<"2">>, <<"1">> >>

\* the number of backslashes that stand right before position k
BackslashesBefore(s, k) ==
  CHOOSE n \in 0..(k - 1) :
    /\ \A j \in (k - n)..(k - 1) : s[j] = BS
    /\ n = k - 1 \/ s[k - n - 1] # BS

\* position k holds a backslash that escapes the character after it
Escaping(s, k) == s[k] = BS /\ BackslashesBefore(s, k) % 2 = 0

\* every special character follows an escaping backslash, and every escaping
\* backslash stands before a special character
WellEscaped(s) ==
  \A k \in 1..Len(s) :
    /\ s[k] \in MdSpecial => (k > 1 /\ Escaping(s, k - 1))
    /\ Escaping(s, k) => (k < Len(s) /\ s[k + 1] \in MdSpecial \cup {BS})

\* s without its escaping backslashes
Unescape(s) ==
  LET keep == IndicesWhere(s, LAMBDA k : ~Escaping(s, k))
  IN  [j \in 1..Len(keep) |-> s[keep[j]]]

\* C6: every special character of a text node outside code and pre is emitted
\* after exactly one backslash that escapes it, and the text of a code element
\* or of a pre block is emitted as it is, with no backslash added.
C6_EscapedOutsideCodeOnly ==
  Done =>
    /\ (Len(doc) = 1 /\ doc[1].tag \in {"#text", "P"}) =>
          /\ WellEscaped(SubSeq(result, 1, Len(result) - 1))
          /\ NonSpace(Unescape(SubSeq(result, 1, Len(result) - 1)))
               = NonSpace(textContentOf(doc[1]))
    /\ OneElement("CODE") =>
          /\ Includes(out, textContentOf(doc[1]))
          /\ Count(result, BS) = Count(textContentOf(doc[1]), BS)
    /\ OneElement("PRE") =>
          /\ Includes(out, DropLastNewline(PreText(doc[1])))
          /\ Count(result, BS) = Count(textContentOf(doc[1]), BS)

\* the text \* : the backslash and the star are escaped once each
C6_Witness ==
  /\ Done
  /\ OneElement("#text")
  /\ doc[1].text = <<BS, STAR>>
  /\ result = <<BS, BS, BS, STAR, NL>>

\* C7: between the opening and the closing fence the final output holds the
\* text of the pre element, line endings normalized and one trailing newline
\* removed, and nothing else.
C7_FencedBodyVerbatim ==
  (Done /\ OneElement("PRE")) =>
     SubSeq(result, IndexFrom(result, 1, NL) + 1,
            Len(result) - Len(FenceOf(PreText(doc[1]))) - 2)
       = DropLastNewline(PreText(doc[1]))

\* the run of backticks that opens the block rendered into out, and the body
\* between the line it is on and the closing fence
OpeningFence(o) == SubSeq(o, 3, RunEnd(o, 3, {BT}))

FencedBody(o) ==
  SubSeq(o, IndexFrom(o, 3, NL) + 1, Len(o) - Len(OpeningFence(o)) - 3)

\* C9: the run of backticks chosen as the fence of a pre block occurs nowhere
\* in the body placed between the two fences.
C9_FenceNotInBody ==
  (Done /\ OneElement("PRE")) => ~Includes(FencedBody(out), OpeningFence(out))

\* C10: every line of a rendered table has as many cells as the header line.
C10_RowsHaveHeaderWidth ==
  (Done /\ OneElement("TABLE") /\ Count(textContentOf(doc[1]), PIPE) = 0
     /\ Len(result) > 1) =>
     \A k \in 1..Len(LinesOf(result)) :
        Count(LinesOf(result)[k], PIPE) = Count(LinesOf(result)[1], PIPE)

\* C8: renderList leaves the context it is given as it was: the object
\* (listDepth, baseUrl and the two array references) and every element of
\* its orderedStack and orderedIndex arrays.
C8_CallerContextUnchanged ==
  [][pc = "call" =>
       /\ heap'.objs[ctx] = heap.objs[ctx]
       /\ heap'.arrs[heap.objs[ctx].orderedStack]
            = heap.arrs[heap.objs[ctx].orderedStack]
       /\ heap'.arrs[heap.objs[ctx].orderedIndex]
            = heap.arrs[heap.objs[ctx].orderedIndex]]_vars

\* renderList has returned from a list with a nested list, called with a
\* context that is itself inside lists
C8_Witness ==
  /\ pc = "returned"
  /\ heap.objs[ctx].listDepth = MaxCtxDepth
  /\ Len(doc[1].kids) >= 2
  /\ Len(heap.objs) >= 3
  /\ heap.arrs[heap.objs[Len(heap.objs)].orderedIndex] # <<>>

====
